---- MODULE Spec2Model ----
(***************************************************************************)
(* The analysis pipeline of src/modal_app.py: process_race_data,           *)
(* generate_betting_advice and analyze_historical_performance, called by   *)
(* an orchestrator on race records it owns.                                *)
(*                                                                         *)
(* Python dicts are functions from string keys; a missing key is a key     *)
(* that is not in the DOMAIN.  Odds are in tenths (30 is 3.0), confidences *)
(* in hundredths (70 is 0.70).  A mean or a ratio is kept as the exact     *)
(* rational [num, den]; float rounding is not modelled.  A call ends in    *)
(* [kind |-> "return", value |-> v] or in [kind |-> "KeyError",            *)
(* value |-> k], the exception d[k] raises on a dict without key k.        *)
(***************************************************************************)
EXTENDS Integers, Sequences, FiniteSets, TLC

\* ---------------------------------------------------------------- bounds
\* longest horses list of a race
MaxHorses == 2
\* longest results list of a race of the corpus
MaxResults == 3

\* ------------------------------------------------------ program constants
\* np.random.uniform(0.1, 0.9), in hundredths
ConfLow == 10
ConfHigh == 90
\* confidence > 0.7
WinThreshold == 70
\* confidence > 0.4
PlaceThreshold == 40
\* positions[-5:]
RecentFormLen == 5

VARIABLES
    race,   \* the caller's race record (race_data)
    corpus, \* the caller's historical corpus (races)
    horse,  \* the caller's horse_id
    rng,    \* numpy's process-wide generator np.random: the value it last produced, 0 before any draw
    last,   \* the latest invocation: stage, argument, values drawn, result
    again   \* whether the invocation before it had the same stage and argument, and the same draws

vars == <<race, corpus, horse, rng, last, again>>

\* ---------------------------------------------------------------- helpers
EmptyDict == [k \in {} |-> 0]

Without(d, ks) == [k \in DOMAIN d \ ks |-> d[k]]

\* d.get(k, default)
Get(d, k, default) == IF k \in DOMAIN d THEN d[k] ELSE default

Return(v) == [kind |-> "return", value |-> v]

\* d[k] on a dict without k
KeyError(k) == [kind |-> "KeyError", value |-> k]

RECURSIVE SumSeq(_)
SumSeq(xs) == IF xs = <<>> THEN 0 ELSE Head(xs) + SumSeq(Tail(xs))

MeanShifted(xs) == [num |-> SumSeq(xs), den |-> Len(xs) + 1]

\* np.mean(xs)
Mean(xs) == [num |-> SumSeq(xs), den |-> Len(xs)]

\* [h[k] for h in horses]
RECURSIVE Column(_, _)
Column(horses, k) ==
    IF horses = <<>> THEN Return(<<>>)
    ELSE IF k \notin DOMAIN Head(horses) THEN KeyError(k)
    ELSE LET rest == Column(Tail(horses), k)
         IN  IF rest.kind = "KeyError" THEN rest
             ELSE Return(<<Head(horses)[k]>> \o rest.value)

\* ------------------------------------------------------ process_race_data
Analysis(race_data, horses, odds, weights) ==
    [total_horses   |-> Len(horses),
     average_odds   |-> Mean(odds),
     average_weight |-> Mean(weights),
     race_surface   |-> Get(race_data, "surface", "Unknown")]

process_race_data_NoEmptyCheck(race_data) ==
    LET horses == Get(race_data, "horses", <<>>)
        odds == Column(horses, "odds")
        weights == Column(horses, "weight")
    IN  IF odds.kind = "KeyError" THEN odds
        ELSE IF weights.kind = "KeyError" THEN weights
        ELSE Return([analysis |->
                        [total_horses |-> Len(horses),
                         race_surface |-> Get(race_data, "surface", "Unknown")],
                     processed_data |-> race_data])

process_race_data(race_data) ==
    LET horses == Get(race_data, "horses", <<>>)
    IN  IF horses # <<>>
        THEN LET odds == Column(horses, "odds")
                 weights == Column(horses, "weight")
             IN  IF odds.kind = "KeyError" THEN odds
                 ELSE IF weights.kind = "KeyError" THEN weights
                 ELSE Return([analysis |-> Analysis(race_data, horses,
                                                    odds.value, weights.value),
                              processed_data |-> race_data])
        ELSE Return([analysis |-> EmptyDict, processed_data |-> race_data])

\* ------------------------------------------------ generate_betting_advice
\* the values np.random.uniform(0.1, 0.9) is drawn from: [0.1, 0.9), here the
\* two thresholds themselves and the value right above the upper one
Uniform(lo, hi) ==
    {c \in lo..(hi - 1) : c \in {PlaceThreshold, WinThreshold, WinThreshold + 1}}

Recommendation_GreaterEqual(confidence) ==
    IF confidence >= WinThreshold THEN "Win"
    ELSE IF confidence >= PlaceThreshold THEN "Place"
    ELSE "No Bet"

Recommendation(confidence) ==
    IF confidence > WinThreshold THEN "Win"
    ELSE IF confidence > PlaceThreshold THEN "Place"
    ELSE "No Bet"

\* f'Based on historical performance analysis (confidence: {confidence:.2f})'
Reasoning(confidence) ==
    <<"Based on historical performance analysis (confidence: ", confidence, ")">>

ExpectedOdds_Grows(odds, confidence) ==
    [num |-> odds * (200 + confidence), den |-> 200]

\* horse['odds'] * (1 + (1 - confidence) * 0.5)
ExpectedOdds(odds, confidence) ==
    [num |-> odds * (200 + (100 - confidence)), den |-> 200]

\* the dict appended for one horse; its values are evaluated in the order written
AdviceEntry(h, confidence) ==
    IF "id" \notin DOMAIN h THEN KeyError("id")
    ELSE IF "name" \notin DOMAIN h THEN KeyError("name")
    ELSE IF "odds" \notin DOMAIN h THEN KeyError("odds")
    ELSE Return([horseId        |-> h["id"],
                 horseName      |-> h["name"],
                 confidence     |-> confidence,
                 recommendedBet |-> Recommendation(confidence),
                 reasoning      |-> Reasoning(confidence),
                 expectedOdds   |-> ExpectedOdds(h["odds"], confidence)])

\* for horse in horses: the draw comes first, then the entry.  draws are the
\* values the generator yields; gen is its state, drawn the values consumed
RECURSIVE AdviceLoop(_, _, _, _, _)
AdviceLoop(horses, draws, advice, gen, drawn) ==
    IF horses = <<>> THEN [result |-> Return(advice), rng |-> gen, drawn |-> drawn]
    ELSE LET confidence == Head(draws)
             entry == AdviceEntry(Head(horses), confidence)
         IN  IF entry.kind = "KeyError"
             THEN [result |-> entry, rng |-> confidence,
                   drawn |-> Append(drawn, confidence)]
             ELSE AdviceLoop(Tail(horses), Tail(draws),
                             Append(advice, entry.value), confidence,
                             Append(drawn, confidence))

generate_betting_advice_DropsNoBet(race_data, draws, gen) ==
    LET out == AdviceLoop(Get(race_data, "horses", <<>>), draws, <<>>, gen, <<>>)
    IN  IF out.result.kind = "KeyError" THEN out
        ELSE [out EXCEPT !.result =
                 Return(SelectSeq(out.result.value,
                                  LAMBDA a : a.recommendedBet # "No Bet"))]

generate_betting_advice_PartialResult(race_data, draws, gen) ==
    LET horses == Get(race_data, "horses", <<>>)
        good == SelectSeq(horses, LAMBDA h : {"id", "name", "odds"} \subseteq DOMAIN h)
    IN  AdviceLoop(good, draws, <<>>, gen, <<>>)

\* historical_data is never read
generate_betting_advice(race_data, draws, gen) ==
    AdviceLoop(Get(race_data, "horses", <<>>), draws, <<>>, gen, <<>>)

\* ----------------------------------------- analyze_historical_performance
\* any(h['id'] == horse_id for h in results): stops at the first match
RECURSIVE AnyMatch(_, _)
AnyMatch(results, horse_id) ==
    IF results = <<>> THEN Return(FALSE)
    ELSE IF "id" \notin DOMAIN Head(results) THEN KeyError("id")
    ELSE IF Head(results)["id"] = horse_id THEN Return(TRUE)
    ELSE AnyMatch(Tail(results), horse_id)

\* [r for r in races if any(...)]
RECURSIVE HorseRaces(_, _)
HorseRaces(races, horse_id) ==
    IF races = <<>> THEN Return(<<>>)
    ELSE LET m == AnyMatch(Get(Head(races), "results", <<>>), horse_id)
         IN  IF m.kind = "KeyError" THEN m
             ELSE LET rest == HorseRaces(Tail(races), horse_id)
                  IN  IF rest.kind = "KeyError" THEN rest
                      ELSE Return((IF m.value THEN <<Head(races)>> ELSE <<>>)
                                  \o rest.value)

RECURSIVE RacePositions_DefaultOne(_, _)
RacePositions_DefaultOne(results, horse_id) ==
    IF results = <<>> THEN Return(<<>>)
    ELSE IF "id" \notin DOMAIN Head(results) THEN KeyError("id")
    ELSE LET rest == RacePositions_DefaultOne(Tail(results), horse_id)
         IN  IF rest.kind = "KeyError" THEN rest
             ELSE Return((IF Head(results)["id"] = horse_id
                          THEN <<Get(Head(results), "position", 1)>>
                          ELSE <<>>) \o rest.value)

\* for horse in race.get('results', []): if horse['id'] == horse_id: append
RECURSIVE RacePositions(_, _)
RacePositions(results, horse_id) ==
    IF results = <<>> THEN Return(<<>>)
    ELSE IF "id" \notin DOMAIN Head(results) THEN KeyError("id")
    ELSE LET rest == RacePositions(Tail(results), horse_id)
         IN  IF rest.kind = "KeyError" THEN rest
             ELSE Return((IF Head(results)["id"] = horse_id
                          THEN <<Get(Head(results), "position", 0)>>
                          ELSE <<>>) \o rest.value)

\* for race in horse_races
RECURSIVE Positions(_, _)
Positions(horse_races, horse_id) ==
    IF horse_races = <<>> THEN Return(<<>>)
    ELSE LET here == RacePositions(Get(Head(horse_races), "results", <<>>), horse_id)
         IN  IF here.kind = "KeyError" THEN here
             ELSE LET rest == Positions(Tail(horse_races), horse_id)
                  IN  IF rest.kind = "KeyError" THEN rest
                      ELSE Return(here.value \o rest.value)

RecentForm_First(positions) ==
    IF Len(positions) >= RecentFormLen
    THEN SubSeq(positions, 1, RecentFormLen)
    ELSE positions

\* positions[-5:] if len(positions) >= 5 else positions
RecentForm(positions) ==
    IF Len(positions) >= RecentFormLen
    THEN SubSeq(positions, Len(positions) - RecentFormLen + 1, Len(positions))
    ELSE positions

\* len([p for p in positions if p == 1]) / len(positions) if positions else 0
WinRate(positions) ==
    IF positions # <<>>
    THEN [num |-> Len(SelectSeq(positions, LAMBDA p : p = 1)), den |-> Len(positions)]
    ELSE [num |-> 0, den |-> 1]

Profile(horse_id, horse_races, positions) ==
    [horse_id         |-> horse_id,
     total_races      |-> Len(horse_races),
     average_position |-> IF positions # <<>> THEN Mean(positions)
                          ELSE [num |-> 0, den |-> 1],
     win_rate         |-> WinRate(positions),
     recent_form      |-> RecentForm(positions)]

analyze_historical_performance_NoDegenerate(horse_id, races) ==
    LET horse_races == HorseRaces(races, horse_id)
    IN  IF horse_races.kind = "KeyError" THEN horse_races
        ELSE LET positions == Positions(horse_races.value, horse_id)
             IN  IF positions.kind = "KeyError" THEN positions
                 ELSE Return(Profile(horse_id, horse_races.value, positions.value))

analyze_historical_performance(horse_id, races) ==
    LET horse_races == HorseRaces(races, horse_id)
    IN  IF horse_races.kind = "KeyError" THEN horse_races
        ELSE IF horse_races.value = <<>>
        THEN Return([horse_id |-> horse_id, performance |-> "No historical data"])
        ELSE LET positions == Positions(horse_races.value, horse_id)
             IN  IF positions.kind = "KeyError" THEN positions
                 ELSE Return(Profile(horse_id, horse_races.value, positions.value))

\* ------------------------------------------------------------ the callers' inputs
HorseA == [id |-> "h1", name |-> "Alpha", odds |-> 30, weight |-> 120]
HorseB == [id |-> "h2", name |-> "Beta", odds |-> 50, weight |-> 115]

\* the two entries, and the first with one of its fields missing
HorseEntries == {HorseA, HorseB} \cup {Without(HorseA, {k}) : k \in DOMAIN HorseA}

SeqsUpTo(S, n) == UNION {[1..k -> S] : k \in 0..n}

\* races with a horses list and with or without a surface, and two without horses
Races ==
    {Without([surface |-> "Turf", horses |-> hs], drop) :
        hs \in SeqsUpTo(HorseEntries, MaxHorses), drop \in {{}, {"surface"}}}
    \cup {[surface |-> "Turf"], EmptyDict}

HorseIds == {"h1", "h2"}

\* results entries: a win, an entry without position, another horse, one without id
ResultEntries ==
    {[id |-> "h1", position |-> 1], [id |-> "h1"],
     [id |-> "h2", position |-> 2], [position |-> 3]}

ResultRaces ==
    {[results |-> rs] : rs \in SeqsUpTo(ResultEntries, MaxResults)} \cup {EmptyDict}

\* every corpus of at most two races
Corpora ==
    {<<>>} \cup {<<r>> : r \in ResultRaces}
           \cup {<<r1, r2>> : r1 \in ResultRaces, r2 \in ResultRaces}

ExampleRace == [surface |-> "Turf", horses |-> <<HorseA, HorseB>>]

ExampleCorpus ==
    << [results |-> <<[id |-> "h1", position |-> 1]>>],
       [results |-> <<[id |-> "h1", position |-> 3]>>] >>

\* ------------------------------------------------------------------ the machine
NoCall == [stage |-> "none"]

Call(stage, arg, drawn, result) ==
    [stage |-> stage, arg |-> arg, drawn |-> drawn, result |-> result]

\* how invocation c relates to the one before it, b
Repeats(b, c) ==
    LET sameArgs == IF b.stage = c.stage THEN b.arg = c.arg ELSE FALSE
    IN  [args |-> sameArgs, draws |-> IF sameArgs THEN b.drawn = c.drawn ELSE FALSE]

Init ==
    /\ race \in Races
    /\ corpus = ExampleCorpus
    /\ horse = "h1"
    /\ rng = 0
    /\ last = NoCall
    /\ again = [args |-> FALSE, draws |-> FALSE]

InitHist ==
    /\ race = ExampleRace
    /\ corpus \in Corpora
    /\ horse \in HorseIds
    /\ rng = 0
    /\ last = NoCall
    /\ again = [args |-> FALSE, draws |-> FALSE]

CallProcessRaceData_Seeds ==
    /\ last' = Call("process_race_data", race, <<>>, process_race_data(race))
    /\ again' = Repeats(last, last')
    /\ rng' = ConfLow
    /\ UNCHANGED <<race, corpus, horse>>

CallProcessRaceData ==
    /\ last' = Call("process_race_data", race, <<>>, process_race_data(race))
    /\ again' = Repeats(last, last')
    /\ UNCHANGED <<race, corpus, horse, rng>>

CallGenerateBettingAdvice ==
    \E draws \in [1..Len(Get(race, "horses", <<>>)) -> Uniform(ConfLow, ConfHigh)] :
        LET out == generate_betting_advice(race, draws, rng)
        IN  /\ rng' = out.rng
            /\ last' = Call("generate_betting_advice", race, out.drawn, out.result)
            /\ again' = Repeats(last, last')
            /\ UNCHANGED <<race, corpus, horse>>

CallAnalyzeHistoricalPerformance ==
    /\ last' = Call("analyze_historical_performance", <<horse, corpus>>, <<>>,
                    analyze_historical_performance(horse, corpus))
    /\ again' = Repeats(last, last')
    /\ UNCHANGED <<race, corpus, horse, rng>>

Next ==
    \/ CallProcessRaceData
    \/ CallGenerateBettingAdvice
    \/ CallAnalyzeHistoricalPerformance

NextHist == CallAnalyzeHistoricalPerformance

Spec == Init /\ [][Next]_vars

SpecHist == InitHist /\ [][NextHist]_vars

\* ------------------------------------------------------------------ the claims
Summarized == last.stage = "process_race_data"

Advised == last.stage = "generate_betting_advice"

Analyzed == last.stage = "analyze_historical_performance"

Returned == last.result.kind = "return"

Raised == last.result.kind = "KeyError"

HorsesOf(r) == Get(r, "horses", <<>>)

\* the indices of the horses of hs that lack one of the keys ks
Lacking(hs, ks) == {i \in DOMAIN hs : ~(ks \subseteq DOMAIN hs[i])}

\* the thresholds of an advice list, with noBet the label of the lowest band
Banded(advice, noBet) ==
    \A i \in DOMAIN advice :
        LET c == advice[i].confidence
            b == advice[i].recommendedBet
        IN  /\ b \in {"Win", "Place", noBet}
            /\ (b = "Win") <=> (c > 70)
            /\ (b = "Place") <=> (40 < c /\ c <= 70)
            /\ (b = noBet) <=> (c <= 40)

\* C1 as stated: every recommendation carries "Win" iff c > 0.7, "Place" iff
\* 0.4 < c <= 0.7 and "NoBet" iff c <= 0.4, and no other label.
CexC1 == (Advised /\ Returned) => Banded(last.result.value, "NoBet")

\* C1 as amended: the same bands, c = 0.7 giving "Place" and c = 0.4 the lowest
\* band, whose label is the string "No Bet".
ThmC1 == (Advised /\ Returned) => Banded(last.result.value, "No Bet")

WitC1 ==
    /\ Advised /\ Returned
    /\ \E i, j \in DOMAIN last.result.value :
        /\ last.result.value[i].confidence = 70
        /\ last.result.value[i].recommendedBet = "Place"
        /\ last.result.value[j].confidence = 40
        /\ last.result.value[j].recommendedBet = "No Bet"

\* the sum of field k over the horses hs, by index
Total(hs, k) ==
    LET S[i \in 0..Len(hs)] == IF i = 0 THEN 0 ELSE S[i - 1] + hs[i][k]
    IN  S[Len(hs)]

\* C2: on a non-empty horses list whose horses all have odds and weight,
\* process_race_data returns total_horses = the length of the list,
\* average_odds = sum of odds / length and average_weight = sum of weights / length.
ThmC2 ==
    LET hs == HorsesOf(last.arg)
    IN  (Summarized /\ hs # <<>> /\ Lacking(hs, {"odds", "weight"}) = {}) =>
            /\ Returned
            /\ LET a == last.result.value.analysis
               IN  /\ a.total_horses = Len(hs)
                   /\ a.average_odds.den > 0
                   /\ a.average_odds.num * Len(hs) = Total(hs, "odds") * a.average_odds.den
                   /\ a.average_weight.den > 0
                   /\ a.average_weight.num * Len(hs)
                        = Total(hs, "weight") * a.average_weight.den

WitC2 ==
    /\ Summarized /\ Returned
    /\ last.arg = ExampleRace
    /\ last.result.value.analysis.total_horses = 2
    /\ last.result.value.analysis.average_odds = [num |-> 80, den |-> 2]

\* C3: on an empty horses list, or a race without horses, process_race_data does
\* not fail: it returns analysis = {} and processed_data = the input race, which
\* is unchanged.
ThmC3 ==
    (Summarized /\ HorsesOf(last.arg) = <<>>) =>
        /\ Returned
        /\ DOMAIN last.result.value.analysis = {}
        /\ last.result.value.processed_data = last.arg
        /\ race = last.arg

WitC3 ==
    /\ Summarized /\ Returned
    /\ "horses" \notin DOMAIN last.arg
    /\ "surface" \in DOMAIN last.arg
    /\ DOMAIN last.result.value.analysis = {}

\* C6: generate_betting_advice returns one recommendation per horse, in order:
\* the result is as long as the horses list and its i-th entry carries the id and
\* the name of the i-th horse; it returns whenever every horse has id, name, odds.
ThmC6 ==
    LET hs == HorsesOf(last.arg)
    IN  Advised =>
            /\ (Lacking(hs, {"id", "name", "odds"}) = {}) => Returned
            /\ Returned =>
                /\ Len(last.result.value) = Len(hs)
                /\ \A i \in DOMAIN hs :
                    /\ last.result.value[i].horseId = hs[i]["id"]
                    /\ last.result.value[i].horseName = hs[i]["name"]

WitC6 ==
    /\ Advised /\ Returned
    /\ Len(last.result.value) = 2
    /\ last.result.value[1].horseId = last.result.value[2].horseId
    /\ last.result.value[2].recommendedBet = "No Bet"

\* C7: for equal base odds, expectedOdds does not grow with the confidence
\* (c1 < c2 gives expectedOdds(c1) >= expectedOdds(c2)), and it is never below
\* the base odds.
ThmC7 ==
    LET hs == HorsesOf(last.arg)
    IN  (Advised /\ Returned) =>
            LET adv == last.result.value
            IN  /\ \A i, j \in DOMAIN adv :
                    (hs[i]["odds"] = hs[j]["odds"]
                        /\ adv[i].confidence < adv[j].confidence) =>
                        adv[i].expectedOdds.num * adv[j].expectedOdds.den
                            >= adv[j].expectedOdds.num * adv[i].expectedOdds.den
                /\ \A i \in DOMAIN adv :
                    /\ adv[i].expectedOdds.den > 0
                    /\ adv[i].expectedOdds.num >= hs[i]["odds"] * adv[i].expectedOdds.den

WitC7 ==
    /\ Advised /\ Returned
    /\ \E i, j \in DOMAIN last.result.value :
        /\ HorsesOf(last.arg)[i]["odds"] = HorsesOf(last.arg)[j]["odds"]
        /\ last.result.value[i].confidence = 40
        /\ last.result.value[j].confidence = 71
        /\ last.result.value[i].expectedOdds.num > last.result.value[j].expectedOdds.num

\* C8: a missing required field fails the stage with the missing-field error (the
\* KeyError of the missing key), raised at the horse that lacks it, and nothing is
\* returned: process_race_data when a horse lacks odds or weight,
\* generate_betting_advice when a horse lacks id, name or odds.
ThmC8 ==
    LET hs == HorsesOf(last.arg)
    IN  /\ (Summarized /\ Lacking(hs, {"odds", "weight"}) # {}) =>
            /\ Raised
            /\ last.result.value \in {"odds", "weight"}
            /\ Lacking(hs, {last.result.value}) # {}
        /\ (Advised /\ Lacking(hs, {"id", "name", "odds"}) # {}) =>
            /\ Raised
            /\ last.result.value \in {"id", "name", "odds"}
            /\ \E i \in Lacking(hs, {"id", "name", "odds"}) :
                /\ \A j \in Lacking(hs, {"id", "name", "odds"}) : i <= j
                /\ last.result.value \notin DOMAIN hs[i]
                /\ Len(last.drawn) = i

WitC8 ==
    /\ Advised /\ Raised
    /\ last.result.value = "name"
    /\ Len(last.drawn) = 2

\* the results entries of a corpus, in corpus order
RECURSIVE Entries(_)
Entries(rs) ==
    IF rs = <<>> THEN <<>> ELSE Get(Head(rs), "results", <<>>) \o Entries(Tail(rs))

EveryEntryHasId(rs) == \A i \in DOMAIN Entries(rs) : "id" \in DOMAIN Entries(rs)[i]

\* the races of the corpus with a results entry of that id
RacesOf(id, rs) ==
    {i \in DOMAIN rs :
        \E j \in DOMAIN Get(rs[i], "results", <<>>) :
            LET e == Get(rs[i], "results", <<>>)[j]
            IN  "id" \in DOMAIN e /\ e["id"] = id}

\* the positions of that id, in corpus order, an absent position being 0
AllPositions(id, rs) ==
    LET mine == SelectSeq(Entries(rs), LAMBDA e : "id" \in DOMAIN e /\ e["id"] = id)
    IN  [i \in DOMAIN mine |->
            IF "position" \in DOMAIN mine[i] THEN mine[i]["position"] ELSE 0]

NoHistory(v) ==
    /\ DOMAIN v = {"horse_id", "performance"}
    /\ v.performance = "No historical data"

\* the two shapes of the result, by the number of races the horse ran in
ShapeByHistory ==
    LET v == last.result.value
        n == Cardinality(RacesOf(last.arg[1], last.arg[2]))
    IN  /\ v.horse_id = last.arg[1]
        /\ NoHistory(v) <=> (n = 0)
        /\ (n # 0) => /\ "total_races" \in DOMAIN v
                      /\ v.total_races = n
                      /\ v.total_races # 0

\* C4 as stated: analyze_historical_performance returns the degenerate record iff
\* no race has a results entry of that id, and in every other case a profile whose
\* total_races is the number of races with such an entry, never 0.
CexC4 == Analyzed => (Returned /\ ShapeByHistory)

\* C4 as amended: the same, for every corpus whose results entries all have an id
\* (on such a corpus it returns), and for every invocation that returns.
ThmC4 ==
    Analyzed =>
        /\ EveryEntryHasId(last.arg[2]) => Returned
        /\ Returned => ShapeByHistory

WitC4 ==
    /\ Analyzed /\ Returned
    /\ NoHistory(last.result.value)
    /\ Len(last.arg[2]) = 2
    /\ Len(Entries(last.arg[2])) >= 2

\* C5: in a profile, win_rate is within [0, 1], recent_form has at most 5 elements
\* and is a suffix of the horse's positions in corpus order, duplicates kept: all
\* of them when fewer than 5, the last 5 otherwise.
ThmC5 ==
    (Analyzed /\ Returned /\ "total_races" \in DOMAIN last.result.value) =>
        LET v == last.result.value
            all == AllPositions(last.arg[1], last.arg[2])
            n == Len(all)
            k == Len(v.recent_form)
        IN  /\ v.win_rate.den > 0
            /\ 0 <= v.win_rate.num
            /\ v.win_rate.num <= v.win_rate.den
            /\ k <= 5
            /\ k <= n
            /\ v.recent_form = SubSeq(all, n - k + 1, n)
            /\ k = IF n < 5 THEN n ELSE 5

WitC5 ==
    /\ Analyzed /\ Returned
    /\ "total_races" \in DOMAIN last.result.value
    /\ Len(AllPositions(last.arg[1], last.arg[2])) = 6
    /\ Len(last.result.value.recent_form) = 5
    /\ last.result.value.recent_form # SubSeq(AllPositions(last.arg[1], last.arg[2]), 1, 5)
    /\ last.result.value.win_rate.num \notin {0, last.result.value.win_rate.den}

\* the corpus with every absent results list and every absent position written out
WithDefaults(rs) ==
    [i \in DOMAIN rs |->
        [results |->
            [j \in DOMAIN Get(rs[i], "results", <<>>) |->
                LET e == Get(rs[i], "results", <<>>)[j]
                IN  IF "position" \in DOMAIN e THEN e
                    ELSE [k \in DOMAIN e \cup {"position"} |->
                            IF k = "position" THEN 0 ELSE e[k]]]]]

SameResult(a, b) == IF a.kind = b.kind THEN a.value = b.value ELSE FALSE

\* C9 as stated: analyze_historical_performance never raises, whatever the
\* corpus, also when a results entry lacks its id.
CexC9 == Analyzed => Returned

\* C9 as amended: on a corpus whose results entries all have an id it never
\* raises, a race without results counting as one with none and an entry without
\* position as position 0; a results entry without id raises KeyError('id').
ThmC9 ==
    Analyzed =>
        /\ EveryEntryHasId(last.arg[2]) =>
            /\ Returned
            /\ SameResult(last.result,
                          analyze_historical_performance(last.arg[1],
                                                         WithDefaults(last.arg[2])))
        /\ ~EveryEntryHasId(last.arg[2]) => last.result = KeyError("id")

WitC9 ==
    /\ Analyzed /\ Returned
    /\ "total_races" \in DOMAIN last.result.value
    /\ \E i \in DOMAIN last.arg[2] : "results" \notin DOMAIN last.arg[2][i]
    /\ \E i \in DOMAIN Entries(last.arg[2]) :
        /\ Entries(last.arg[2])[i]["id"] = last.arg[1]
        /\ "position" \notin DOMAIN Entries(last.arg[2])[i]
    /\ last.result.value.win_rate.num = 0

\* the inputs are the caller's and no step changes them
InputsKept ==
    /\ <<race', corpus', horse'>> = <<race, corpus, horse>>
    /\ last'.arg = IF last'.stage = "analyze_historical_performance"
                   THEN <<horse', corpus'>> ELSE race'

\* C10 as stated: the three stages are pure: an invocation with the stage and the
\* argument of the one before it returns the same output, none reads or writes
\* state that outlives it, the process-wide generator included, none changes its
\* input.
CexC10 ==
    [][/\ InputsKept
       /\ rng' = rng
       /\ last'.drawn = <<>>
       /\ again'.args => SameResult(last.result, last'.result)]_vars

\* C10 as amended: process_race_data and analyze_historical_performance are pure
\* and leave the generator alone; generate_betting_advice draws once per horse it
\* reaches from the process-wide generator and advances it, so that with an equal
\* argument it fails at the same key or returns the same ids and names in the same
\* order, and the same output when the draws are the same; no stage changes its
\* input.
ThmC10 ==
    [][/\ InputsKept
       /\ (last'.stage # "generate_betting_advice") =>
            /\ rng' = rng
            /\ last'.drawn = <<>>
            /\ again'.args => SameResult(last.result, last'.result)
       /\ (last'.stage = "generate_betting_advice") =>
            /\ rng' = IF last'.drawn = <<>> THEN rng
                      ELSE last'.drawn[Len(last'.drawn)]
            /\ again'.draws => SameResult(last.result, last'.result)
            /\ again'.args =>
                /\ last'.result.kind = last.result.kind
                /\ Len(last'.drawn) = Len(last.drawn)
                /\ (last'.result.kind = "KeyError") =>
                        last'.result.value = last.result.value
                /\ (last'.result.kind = "return") =>
                    /\ Len(last'.result.value) = Len(last.result.value)
                    /\ \A i \in DOMAIN last.result.value :
                        /\ last'.result.value[i].horseId = last.result.value[i].horseId
                        /\ last'.result.value[i].horseName
                                = last.result.value[i].horseName]_vars

WitC10 ==
    /\ Advised /\ Returned
    /\ again.args /\ ~again.draws
    /\ Len(last.result.value) = 2
    /\ rng # 0

====
